---- MODULE Spec2Model ----
(***************************************************************************)
(* Off-chain indexer of the GraphQL API storage layer                      *)
(* (crates/fuel-core/src/graphql_api/storage.rs).                          *)
(*                                                                         *)
(* impl OffChainDatabaseTransaction for StorageTransaction<S> stages       *)
(* writes to three tables (OwnedTransactions, TransactionStatuses,         *)
(* StatisticTable<u64>) in an overlay over a base key-value store and      *)
(* applies them with commit.  The overlay's own get / insert / replace /   *)
(* commit live in the fuel-core-storage crate; they are modelled from the  *)
(* storage contract and kept apart from the operations translated from     *)
(* storage.rs.                                                             *)
(***************************************************************************)
EXTENDS Integers, Sequences, FiniteSets, TLC

VARIABLES base, txs, last, ops, faults, overlap, cat, lay, ix

vars == <<base, txs, last, ops, faults, overlap, cat, lay, ix>>

\* The state outside the indexer's overlays: cat, a build of the column
\* catalog and two of its variants; lay, the shared key space under one
\* write buffer; ix, the owned-transaction index of a longer chain.
aside == <<cat, lay, ix>>

----------------------------------------------------------------------------
(* Bounds of the model. *)

\* Overlays opened on the base store during one run.
MaxOverlays == 2

\* Indexer operations issued during one run, over all overlays.
MaxOps == 2

\* Storage failures the environment injects during one run.
MaxFaults == 1

----------------------------------------------------------------------------
(* u64 values.  TLC integers are 32 bits wide, so a u64 is kept as four    *)
(* 16-bit limbs, most significant first; the arithmetic below is exact on  *)
(* the full 64-bit range.                                                  *)

LimbBase == 2^16

\* The u64 whose value is n, for 0 <= n < 2^16.
U64(n) == <<0, 0, 0, n>>

\* u64::MAX = 2^64 - 1.
U64_MAX == <<LimbBase - 1, LimbBase - 1, LimbBase - 1, LimbBase - 1>>

\* The 65-bit sum of two u64: the low 64 bits and the carry out.
add_with_carry(a, b) ==
    LET s4 == a[4] + b[4]
        s3 == a[3] + b[3] + (s4 \div LimbBase)
        s2 == a[2] + b[2] + (s3 \div LimbBase)
        s1 == a[1] + b[1] + (s2 \div LimbBase)
    IN  [sum   |-> <<s1 % LimbBase, s2 % LimbBase, s3 % LimbBase, s4 % LimbBase>>,
         carry |-> s1 \div LimbBase]

\* Faulty variant of saturating_add: u64::wrapping_add, (a + b) % 2^64.
wrapping_add(a, b) == add_with_carry(a, b).sum

\* u64::saturating_add: a + b, clamped at u64::MAX.
saturating_add(a, b) ==
    IF add_with_carry(a, b).carry # 0 THEN U64_MAX ELSE add_with_carry(a, b).sum

\* <Option<Cow<u64>>>::unwrap_or_default().into_owned(): 0 for None.
unwrap_or_default(opt) == IF opt = <<>> THEN U64(0) ELSE opt[1]

----------------------------------------------------------------------------
(* Inputs. *)

\* const TX_COUNT.
TX_COUNT == "total_tx_count"

Owners == {"A", "B"}

Heights == {10}

TxIdxs == {0}

TxIds == {"T1", "T2"}

Statuses == {"Submitted", "Success"}

Deltas == {U64(1), U64_MAX}

\* OwnedTransactionIndexKey::new(owner, block_height, tx_idx).
OwnedTransactionIndexKey(owner, block_height, tx_idx) ==
    <<owner, block_height, tx_idx>>

OwnedKeys ==
    {OwnedTransactionIndexKey(o, h, i) : o \in Owners, h \in Heights, i \in TxIdxs}

\* The tables the indexer writes, named by their Column.
\*   OwnedTransactions      -> Column::TransactionsByOwnerBlockIdx = 4
\*   TransactionStatuses    -> Column::TransactionStatus = 3
\*   StatisticTable<u64>    -> Column::Statistic = 6
OwnedTransactions == "TransactionsByOwnerBlockIdx"

TransactionStatuses == "TransactionStatus"

StatisticTable == "Statistic"

Tables == {OwnedTransactions, TransactionStatuses, StatisticTable}

KeysOf(table) ==
    IF table = OwnedTransactions THEN OwnedKeys
    ELSE IF table = TransactionStatuses THEN TxIds
    ELSE {TX_COUNT}

\* A store with no entry: an Option is <<>> (None) or <<v>> (Some(v)).
EmptyStore == [t \in Tables |-> [k \in KeysOf(t) |-> <<>>]]

\* StorageResult<T>.
Ok(v) == [ok |-> TRUE, val |-> v, err |-> "none"]

Err(e) == [ok |-> FALSE, val |-> <<>>, err |-> e]

----------------------------------------------------------------------------
(* The column catalog: enum Column, #[repr(u32)].  A variant is its place   *)
(* in the declaration, 1 .. Len(Column); fault_proving marks the variants   *)
(* under #[cfg(feature = "fault-proving")].                                 *)

Column == <<
    [name |-> "Metadata",
     discriminant |-> 0, fault_proving |-> FALSE],
    [name |-> "GenesisMetadata",
     discriminant |-> 1, fault_proving |-> FALSE],
    [name |-> "OwnedCoins",
     discriminant |-> 2, fault_proving |-> FALSE],
    [name |-> "TransactionStatus",
     discriminant |-> 3, fault_proving |-> FALSE],
    [name |-> "TransactionsByOwnerBlockIdx",
     discriminant |-> 4, fault_proving |-> FALSE],
    [name |-> "OwnedMessageIds",
     discriminant |-> 5, fault_proving |-> FALSE],
    [name |-> "Statistic",
     discriminant |-> 6, fault_proving |-> FALSE],
    [name |-> "FuelBlockIdsToHeights",
     discriminant |-> 7, fault_proving |-> FALSE],
    [name |-> "ContractsInfo",
     discriminant |-> 8, fault_proving |-> FALSE],
    [name |-> "OldFuelBlocks",
     discriminant |-> 9, fault_proving |-> FALSE],
    [name |-> "OldFuelBlockConsensus",
     discriminant |-> 10, fault_proving |-> FALSE],
    [name |-> "OldTransactions",
     discriminant |-> 11, fault_proving |-> FALSE],
    [name |-> "RelayedTransactionStatus",
     discriminant |-> 12, fault_proving |-> FALSE],
    [name |-> "SpentMessages",
     discriminant |-> 13, fault_proving |-> FALSE],
    [name |-> "DaCompressedBlocks",
     discriminant |-> 14, fault_proving |-> FALSE],
    [name |-> "DaCompressionTemporalRegistryIndex",
     discriminant |-> 15, fault_proving |-> FALSE],
    [name |-> "DaCompressionTemporalRegistryTimestamps",
     discriminant |-> 16, fault_proving |-> FALSE],
    [name |-> "DaCompressionTemporalRegistryEvictorCache",
     discriminant |-> 17, fault_proving |-> FALSE],
    [name |-> "DaCompressionTemporalRegistryAddress",
     discriminant |-> 18, fault_proving |-> FALSE],
    [name |-> "DaCompressionTemporalRegistryAssetId",
     discriminant |-> 19, fault_proving |-> FALSE],
    [name |-> "DaCompressionTemporalRegistryContractId",
     discriminant |-> 20, fault_proving |-> FALSE],
    [name |-> "DaCompressionTemporalRegistryScriptCode",
     discriminant |-> 21, fault_proving |-> FALSE],
    [name |-> "DaCompressionTemporalRegistryPredicateCode",
     discriminant |-> 22, fault_proving |-> FALSE],
    [name |-> "CoinBalances",
     discriminant |-> 23, fault_proving |-> FALSE],
    [name |-> "MessageBalances",
     discriminant |-> 24, fault_proving |-> FALSE],
    [name |-> "AssetsInfo",
     discriminant |-> 25, fault_proving |-> FALSE],
    [name |-> "CoinsToSpend",
     discriminant |-> 26, fault_proving |-> FALSE],
    [name |-> "DaCompressionTemporalRegistryAddressV2",
     discriminant |-> 27, fault_proving |-> TRUE],
    [name |-> "DaCompressionTemporalAddressMerkleData",
     discriminant |-> 28, fault_proving |-> TRUE],
    [name |-> "DaCompressionTemporalAddressMerkleMetadata",
     discriminant |-> 29, fault_proving |-> TRUE],
    [name |-> "DaCompressionTemporalRegistryAssetIdV2",
     discriminant |-> 30, fault_proving |-> TRUE],
    [name |-> "DaCompressionTemporalAssetIdMerkleData",
     discriminant |-> 31, fault_proving |-> TRUE],
    [name |-> "DaCompressionTemporalAssetIdMerkleMetadata",
     discriminant |-> 32, fault_proving |-> TRUE],
    [name |-> "DaCompressionTemporalRegistryContractIdV2",
     discriminant |-> 33, fault_proving |-> TRUE],
    [name |-> "DaCompressionTemporalContractIdMerkleData",
     discriminant |-> 34, fault_proving |-> TRUE],
    [name |-> "DaCompressionTemporalContractIdMerkleMetadata",
     discriminant |-> 35, fault_proving |-> TRUE],
    [name |-> "DaCompressionTemporalRegistryScriptCodeV2",
     discriminant |-> 36, fault_proving |-> TRUE],
    [name |-> "DaCompressionTemporalScriptCodeMerkleData",
     discriminant |-> 37, fault_proving |-> TRUE],
    [name |-> "DaCompressionTemporalScriptCodeMerkleMetadata",
     discriminant |-> 38, fault_proving |-> TRUE],
    [name |-> "DaCompressionTemporalRegistryPredicateCodeV2",
     discriminant |-> 39, fault_proving |-> TRUE],
    [name |-> "DaCompressionTemporalPredicateCodeMerkleData",
     discriminant |-> 40, fault_proving |-> TRUE],
    [name |-> "DaCompressionTemporalPredicateCodeMerkleMetadata",
     discriminant |-> 41, fault_proving |-> TRUE],
    [name |-> "DaCompressionTemporalRegistryIndexV2",
     discriminant |-> 42, fault_proving |-> TRUE],
    [name |-> "DaCompressionTemporalRegistryIndexMerkleData",
     discriminant |-> 43, fault_proving |-> TRUE],
    [name |-> "DaCompressionTemporalRegistryIndexMerkleMetadata",
     discriminant |-> 44, fault_proving |-> TRUE],
    [name |-> "DaCompressionTemporalRegistryTimestampsV2",
     discriminant |-> 45, fault_proving |-> TRUE],
    [name |-> "DaCompressionTemporalRegistryTimestampsMerkleData",
     discriminant |-> 46, fault_proving |-> TRUE],
    [name |-> "DaCompressionTemporalRegistryTimestampsMerkleMetadata",
     discriminant |-> 47, fault_proving |-> TRUE],
    [name |-> "DaCompressionTemporalRegistryEvictorCacheV2",
     discriminant |-> 48, fault_proving |-> TRUE],
    [name |-> "DaCompressionTemporalRegistryEvictorCacheMerkleData",
     discriminant |-> 49, fault_proving |-> TRUE],
    [name |-> "DaCompressionTemporalRegistryEvictorCacheMerkleMetadata",
     discriminant |-> 50, fault_proving |-> TRUE]
>>

\* The variants compiled into a build with or without the feature.
Variants(fault_proving) ==
    {c \in 1 .. Len(Column) : fault_proving \/ ~Column[c].fault_proving}

\* Faulty variant: every declared variant is counted, compiled or not.
COUNT_all_declared(fault_proving) == Len(Column)

\* Column::COUNT, strum::EnumCount: the number of variants of the build.
COUNT(fault_proving) == Cardinality(Variants(fault_proving))

\* Faulty variant: TransactionsByOwnerBlockIdx shares the discriminant of
\* TransactionStatus.
as_u32_shared_with_status(c) ==
    IF Column[c].name = "TransactionsByOwnerBlockIdx" THEN 3
    ELSE Column[c].discriminant

\* Faulty variant: the conditional block is numbered from the last
\* unconditional discriminant, not from the one after it.
as_u32_conditional_from_last(c) ==
    IF Column[c].fault_proving THEN Column[c].discriminant - 1
    ELSE Column[c].discriminant

\* Column::as_u32: *self as u32, the declared discriminant (every one of
\* them is below 2^32, the cast changes none).
as_u32(c) == Column[c].discriminant

\* StorageColumn::id.
StorageColumn_id(c) == as_u32(c)

\* StorageColumn::name, strum::IntoStaticStr: the variant's identifier.
name(c) == Column[c].name

\* enum_iterator::Sequence::next: the variant declared after c in the build.
next(c, fault_proving) ==
    IF c + 1 \in Variants(fault_proving) THEN <<c + 1>> ELSE <<>>

----------------------------------------------------------------------------
(* The persisted layout: the tables share one key-value store, and a key   *)
(* of a table is kept at (identifier of the table's Column, key bytes).    *)
(* self is [storage |-> the store, changes |-> the write buffer], both     *)
(* over that shared key space.                                             *)

\* Serialized key bytes and stored values.
KeyBytes == {"b"}

RawValues == {"x", "y"}

\* The Column a table is bound to, the one that bears its name.
column(table) == CHOOSE c \in 1 .. Len(Column) : name(c) = table

\* The place of key bytes of a table in the shared key space.
Place(table, bytes) == <<StorageColumn_id(column(table)), bytes>>

Places == {Place(t, b) : t \in Tables, b \in KeyBytes}

NoPlaces == [p \in Places |-> <<>>]

\* A buffered write.
WriteInsert(value) == [op |-> "Insert", value |-> value]

WriteRemove == [op |-> "Remove", value |-> ""]

\* Byte-level get through the write buffer.
raw_get(self, table, bytes) ==
    LET p == Place(table, bytes)
    IN  IF self.changes[p] = <<>> THEN self.storage[p]
        ELSE IF self.changes[p][1].op = "Insert" THEN <<self.changes[p][1].value>>
        ELSE <<>>

\* Byte-level put and delete: buffered.
raw_put(self, table, bytes, value) ==
    [self EXCEPT !.changes[Place(table, bytes)] = <<WriteInsert(value)>>]

raw_delete(self, table, bytes) ==
    [self EXCEPT !.changes[Place(table, bytes)] = <<WriteRemove>>]

\* The buffer applied to the store in one batch.
raw_commit(self) ==
    [storage |-> [p \in Places |->
                    IF self.changes[p] = <<>> THEN self.storage[p]
                    ELSE IF self.changes[p][1].op = "Insert"
                         THEN <<self.changes[p][1].value>>
                         ELSE <<>>],
     changes |-> NoPlaces]

NoRawOp == [kind |-> "none", table |-> "", bytes |-> "", value |-> ""]

----------------------------------------------------------------------------
(* The owned-transaction index over several blocks.  A transaction is      *)
(* known by the place it was executed at, (block height, index in block);  *)
(* the index is iterated in the order of its keys, which is by owner,      *)
(* then block height, then index in block.                                 *)

\* The places of the transactions of the chain: (block height, index).
Positions == {<<1, 1>>, <<1, 2>>, <<2, 1>>}

\* The id of the transaction executed at index tx_idx of block block_height.
TxAt(block_height, tx_idx) == <<"tx", block_height, tx_idx>>

IndexKeys ==
    {OwnedTransactionIndexKey(o, p[1], p[2]) : o \in Owners, p \in Positions}

NoEntries == [k \in IndexKeys |-> <<>>]

\* The store whose owned-transaction index holds entries, the other tables
\* empty.
IndexStore(entries) ==
    [t \in Tables |-> IF t = OwnedTransactions THEN entries ELSE EmptyStore[t]]

\* (h1, i1) is before (h2, i2) in execution order.
Before(h1, i1, h2, i2) == h1 < h2 \/ (h1 = h2 /\ i1 < i2)

\* The order of two keys of one owner in the store.
KeyBefore(k1, k2) == k1[1] = k2[1] /\ Before(k1[2], k1[3], k2[2], k2[3])

\* Iteration over the entries of owner: [key, tx_id] in the order of the keys.
owned_transactions_ids(entries, owner) ==
    LET keys == {k \in IndexKeys : k[1] = owner /\ entries[k] # <<>>}
        n == Cardinality(keys)
        order == CHOOSE f \in [1 .. n -> keys] :
                     \A j, l \in 1 .. n : j < l => KeyBefore(f[j], f[l])
    IN  [j \in 1 .. n |-> [key |-> order[j], tx_id |-> entries[order[j]][1]]]

----------------------------------------------------------------------------
(* StorageTransaction<S> of fuel-core-storage: self is                     *)
(* [storage |-> the base store, changes |-> the pending writes].           *)
(* fault is the failure the underlying store reports during the call.      *)

\* storage::<T>().get(key): the pending write, else the base store's value.
get(self, table, key, fault) ==
    IF fault = "read" THEN Err(fault)
    ELSE IF self.changes[table][key] # <<>> THEN Ok(self.changes[table][key])
    ELSE Ok(self.storage[table][key])

\* storage::<T>().insert(key, value): stages the write.
insert(self, table, key, value, fault) ==
    IF fault = "write" THEN [self |-> self, ret |-> Err(fault)]
    ELSE [self |-> [self EXCEPT !.changes[table][key] = <<value>>],
          ret  |-> Ok(<<>>)]

\* storage::<T>().replace(key, value): stages the write, returns the prior value.
replace(self, table, key, value, fault) ==
    LET prior == get(self, table, key, fault)
        put   == insert(self, table, key, value, fault)
    IN  IF ~prior.ok THEN [self |-> self, ret |-> prior]
        ELSE IF ~put.ret.ok THEN [self |-> self, ret |-> put.ret]
        ELSE [self |-> put.self, ret |-> Ok(prior.val)]

\* StorageTransaction::commit(self): one atomic batch applied to the base store.
StorageTransaction_commit(self, fault) ==
    IF fault # "none" THEN [storage |-> self.storage, ret |-> Err(fault)]
    ELSE [storage |-> [t \in Tables |-> [k \in DOMAIN self.storage[t] |->
                          IF self.changes[t][k] # <<>> THEN self.changes[t][k]
                          ELSE self.storage[t][k]]],
          ret     |-> Ok(<<>>)]

----------------------------------------------------------------------------
(* impl OffChainDatabaseTransaction for StorageTransaction<S>. *)

\* Faulty variant: the entry is written to the underlying store, not staged.
record_tx_id_owner_direct(self, owner, block_height, tx_idx, tx_id, fault) ==
    IF fault = "write" THEN [self |-> self, ret |-> Err(fault)]
    ELSE [self |-> [self EXCEPT !.storage[OwnedTransactions][
                        OwnedTransactionIndexKey(owner, block_height, tx_idx)] = <<tx_id>>],
          ret  |-> Ok(<<>>)]

\* Faulty variant: a key that already holds a transaction id is refused.
record_tx_id_owner_if_absent(self, owner, block_height, tx_idx, tx_id, fault) ==
    LET key == OwnedTransactionIndexKey(owner, block_height, tx_idx)
    IN  IF get(self, OwnedTransactions, key, "none").val # <<>>
        THEN [self |-> self, ret |-> Err("already_exists")]
        ELSE insert(self, OwnedTransactions, key, tx_id, fault)

\* Faulty variant: the key is built with the index in block before the block
\* height.
record_tx_id_owner_idx_first(self, owner, block_height, tx_idx, tx_id, fault) ==
    insert(self, OwnedTransactions,
           OwnedTransactionIndexKey(owner, tx_idx, block_height), tx_id, fault)

\* Faulty variant: the call also stages a first status for the transaction.
record_tx_id_owner_with_status(self, owner, block_height, tx_idx, tx_id, fault) ==
    LET put == insert(self, OwnedTransactions,
                      OwnedTransactionIndexKey(owner, block_height, tx_idx),
                      tx_id, fault)
    IN  IF ~put.ret.ok THEN put
        ELSE insert(put.self, TransactionStatuses, tx_id, "Submitted", fault)

record_tx_id_owner(self, owner, block_height, tx_idx, tx_id, fault) ==
    insert(self, OwnedTransactions,
           OwnedTransactionIndexKey(owner, block_height, tx_idx), tx_id, fault)

\* Faulty variant: insert in place of replace, the prior status is lost.
update_tx_status_by_insert(self, id, status, fault) ==
    IF fault = "read" THEN [self |-> self, ret |-> Err(fault)]
    ELSE insert(self, TransactionStatuses, id, status, fault)

update_tx_status(self, id, status, fault) ==
    replace(self, TransactionStatuses, id, status, fault)

\* Faulty variant: the counter is read from the underlying store, past the
\* overlay's pending writes.
get_tx_count_from_base(self, fault) ==
    LET r == get([storage |-> self.storage, changes |-> EmptyStore],
                 StatisticTable, TX_COUNT, fault)
    IN  IF ~r.ok THEN r ELSE Ok(<<unwrap_or_default(r.val)>>)

\* Faulty variant: an absent counter is an error, not 0.
get_tx_count_required(self, fault) ==
    LET r == get(self, StatisticTable, TX_COUNT, fault)
    IN  IF ~r.ok THEN r
        ELSE IF r.val = <<>> THEN Err("not_found")
        ELSE Ok(r.val)

get_tx_count(self, fault) ==
    LET r == get(self, StatisticTable, TX_COUNT, fault)
    IN  IF ~r.ok THEN r ELSE Ok(<<unwrap_or_default(r.val)>>)

\* Faulty variant: the increment is staged as the total, the current total is
\* not added.
increase_tx_count_overwriting(self, new_txs_count, fault) ==
    LET current_tx_count == get_tx_count(self, fault)
        put == insert(self, StatisticTable, TX_COUNT, new_txs_count, fault)
    IN  IF ~current_tx_count.ok THEN [self |-> self, ret |-> current_tx_count]
        ELSE IF ~put.ret.ok THEN [self |-> self, ret |-> put.ret]
        ELSE [self |-> put.self, ret |-> Ok(<<new_txs_count>>)]

\* Faulty variant: checked_add, an overflow is reported as an error.
increase_tx_count_checked(self, new_txs_count, fault) ==
    LET current_tx_count == get_tx_count(self, fault)
        sum == add_with_carry(current_tx_count.val[1], new_txs_count)
        put == insert(self, StatisticTable, TX_COUNT, sum.sum, fault)
    IN  IF ~current_tx_count.ok THEN [self |-> self, ret |-> current_tx_count]
        ELSE IF sum.carry # 0 THEN [self |-> self, ret |-> Err("overflow")]
        ELSE IF ~put.ret.ok THEN [self |-> self, ret |-> put.ret]
        ELSE [self |-> put.self, ret |-> Ok(<<sum.sum>>)]

\* Faulty variant: a failed read of the counter counts as 0 and the sum is
\* staged all the same.
increase_tx_count_ignoring_read_error(self, new_txs_count, fault) ==
    LET current_tx_count == get_tx_count(self, fault)
        current == IF current_tx_count.ok THEN current_tx_count.val[1] ELSE U64(0)
        new_tx_count == saturating_add(current, new_txs_count)
        put == insert(self, StatisticTable, TX_COUNT, new_tx_count, fault)
    IN  IF ~put.ret.ok THEN [self |-> self, ret |-> put.ret]
        ELSE [self |-> put.self, ret |-> Ok(<<new_tx_count>>)]

\* Faulty variant: the current total is read from the base store, past the
\* overlay's own staged total.
increase_tx_count_from_base(self, new_txs_count, fault) ==
    LET current_tx_count == get_tx_count_from_base(self, fault)
        new_tx_count == saturating_add(current_tx_count.val[1], new_txs_count)
        put == insert(self, StatisticTable, TX_COUNT, new_tx_count, fault)
    IN  IF ~current_tx_count.ok THEN [self |-> self, ret |-> current_tx_count]
        ELSE IF ~put.ret.ok THEN [self |-> self, ret |-> put.ret]
        ELSE [self |-> put.self, ret |-> Ok(<<new_tx_count>>)]

increase_tx_count(self, new_txs_count, fault) ==
    LET current_tx_count == get_tx_count(self, fault)
        new_tx_count == saturating_add(current_tx_count.val[1], new_txs_count)
        put == insert(self, StatisticTable, TX_COUNT, new_tx_count, fault)
    IN  IF ~current_tx_count.ok THEN [self |-> self, ret |-> current_tx_count]
        ELSE IF ~put.ret.ok THEN [self |-> self, ret |-> put.ret]
        ELSE [self |-> put.self, ret |-> Ok(<<new_tx_count>>)]

\* Faulty variant: a staged total is added to the committed one, not written
\* over it.
commit_adding_totals(self, fault) ==
    LET r == StorageTransaction_commit(self, fault)
        staged == self.changes[StatisticTable][TX_COUNT]
        held == self.storage[StatisticTable][TX_COUNT]
    IN  IF r.ret.ok /\ staged # <<>> /\ held # <<>>
        THEN [storage |-> [r.storage EXCEPT ![StatisticTable][TX_COUNT] =
                              <<saturating_add(held[1], staged[1])>>],
              ret     |-> Ok(<<>>)]
        ELSE r

\* Faulty variant: Ok is returned and the pending writes are dropped.
commit_dropping_changes(self, fault) ==
    [storage |-> self.storage, ret |-> Ok(<<>>)]

\* Faulty variant: a failed commit is tried again.
commit_retrying(self, fault) ==
    LET r == StorageTransaction_commit(self, fault)
    IN  IF ~r.ret.ok THEN StorageTransaction_commit(self, "none") ELSE r

commit(self, fault) ==
    LET r == StorageTransaction_commit(self, fault)
    IN  IF ~r.ret.ok THEN [storage |-> r.storage, ret |-> r.ret]
        ELSE [storage |-> r.storage, ret |-> Ok(<<>>)]

----------------------------------------------------------------------------
(* State machine: the base store and the overlays callers open on it.      *)
(*   base    the committed store                                           *)
(*   txs     per overlay, its phase and its pending writes                 *)
(*   last    the latest call: operation, overlay, arguments, the failure   *)
(*           the store reported during it, and the value it returned; for  *)
(*           a commit, key is the set of tables the overlay had staged and *)
(*           val the total the base store held when commit was called      *)
(*   ops     indexer operations issued so far                              *)
(*   faults  store failures injected so far                                *)
(*   cat     a build of the column catalog (fault-proving on or off) and   *)
(*           two variants of it, walked by the catalog's own machine      *)
(*   overlap history: an overlay was opened while another one was open     *)

OverlayIds == 1 .. MaxOverlays

OpFaults == {"none", "read", "write"}

CommitFaults == {"none", "store_failure", "contention"}

NoOp ==
    [op |-> "none", ov |-> 0, key |-> <<>>, val |-> <<>>, fault |-> "none",
     ret |-> Ok(<<>>)]

\* Faulty variant: one write set shared by the open overlays, so that an
\* overlay reads what another one has staged.
Tx_shared(o) ==
    [storage |-> base,
     changes |-> [t \in Tables |-> [k \in KeysOf(t) |->
                    IF txs[o].changes[t][k] # <<>> THEN txs[o].changes[t][k]
                    ELSE IF \E p \in OverlayIds : txs[p].changes[t][k] # <<>>
                         THEN txs[CHOOSE p \in OverlayIds :
                                     txs[p].changes[t][k] # <<>>].changes[t][k]
                         ELSE <<>>]]]

\* The StorageTransaction of overlay o: its pending writes over the shared base store.
Tx(o) == [storage |-> base, changes |-> txs[o].changes]

\* A failure can be injected while the fault budget lasts.
FaultAllowed(fault) == fault = "none" \/ faults < MaxFaults

Spend(fault) == faults' = IF fault = "none" THEN faults ELSE faults + 1

CanOperate(o) == txs[o].phase = "open" /\ ops < MaxOps

\* Faulty variant: commit borrows the overlay, which stays usable with an
\* empty write set.
Closed_reusable == [phase |-> "open", changes |-> EmptyStore]

\* A consumed overlay: commit takes self by value, a drop frees it.
Closed == [phase |-> "closed", changes |-> EmptyStore]

\* The tables in which a StorageTransaction holds pending writes.
Touched(self) == {t \in Tables : \E k \in KeysOf(t) : self.changes[t][k] # <<>>}

\* The state after an operation on overlay o returned r.
Step(o, r, op, key, val, fault) ==
    /\ base' = r.self.storage
    /\ txs' = [txs EXCEPT ![o].changes = r.self.changes]
    /\ last' = [op |-> op, ov |-> o, key |-> key, val |-> val, fault |-> fault,
                ret |-> r.ret]
    /\ ops' = ops + 1
    /\ Spend(fault)
    /\ UNCHANGED <<overlap, aside>>

\* No overlay opened on an empty base store.
IndexerAtStart ==
    /\ base = EmptyStore
    /\ txs = [o \in OverlayIds |-> [phase |-> "new", changes |-> EmptyStore]]
    /\ last = NoOp
    /\ ops = 0
    /\ faults = 0
    /\ overlap = FALSE

\* The build without the feature, at the first variant of the catalog.
CatalogAtStart == cat = [fault_proving |-> FALSE, c |-> 1, d |-> 1]

\* An empty shared store under an empty write buffer.
LayoutAtStart == lay = [storage |-> NoPlaces, changes |-> NoPlaces, op |-> NoRawOp]

\* An empty owned-transaction index under an overlay with nothing staged.
IndexAtStart ==
    ix = [storage |-> NoEntries, changes |-> NoEntries, out_of_order |-> FALSE]

Init == IndexerAtStart /\ CatalogAtStart /\ LayoutAtStart /\ IndexAtStart

\* The caller opens a fresh overlay on the base store; overlays are numbered in
\* the order they are opened.
Open(o) ==
    /\ txs[o].phase = "new"
    /\ \A p \in OverlayIds : p < o => txs[p].phase # "new"
    /\ txs' = [txs EXCEPT ![o].phase = "open"]
    /\ overlap' = (overlap \/ \E p \in OverlayIds : txs[p].phase = "open")
    /\ UNCHANGED <<base, last, ops, faults, aside>>

RecordTxIdOwner(o) ==
    /\ CanOperate(o)
    /\ \E owner \in Owners, h \in Heights, i \in TxIdxs, tx_id \in TxIds,
          fault \in {"none", "write"} :
          /\ FaultAllowed(fault)
          /\ Step(o, record_tx_id_owner(Tx(o), owner, h, i, tx_id, fault),
                  "record_tx_id_owner", OwnedTransactionIndexKey(owner, h, i),
                  <<tx_id>>, fault)

UpdateTxStatus(o) ==
    /\ CanOperate(o)
    /\ \E id \in TxIds, status \in Statuses, fault \in OpFaults :
          /\ FaultAllowed(fault)
          /\ Step(o, update_tx_status(Tx(o), id, status, fault),
                  "update_tx_status", id, <<status>>, fault)

IncreaseTxCount(o) ==
    /\ CanOperate(o)
    /\ \E d \in Deltas, fault \in OpFaults :
          /\ FaultAllowed(fault)
          /\ Step(o, increase_tx_count(Tx(o), d, fault),
                  "increase_tx_count", TX_COUNT, <<d>>, fault)

GetTxCount(o) ==
    /\ CanOperate(o)
    /\ \E fault \in {"none", "read"} :
          /\ FaultAllowed(fault)
          /\ Step(o, [self |-> Tx(o), ret |-> get_tx_count(Tx(o), fault)],
                  "get_tx_count", TX_COUNT, <<>>, fault)

\* commit(self) consumes the overlay, whatever it returns.
Commit(o) ==
    /\ txs[o].phase = "open"
    /\ \E fault \in CommitFaults :
          /\ FaultAllowed(fault)
          /\ LET r == commit(Tx(o), fault)
             IN  /\ base' = r.storage
                 /\ txs' = [txs EXCEPT ![o] = Closed]
                 /\ last' = [op |-> "commit", ov |-> o, key |-> Touched(Tx(o)),
                             val |-> base[StatisticTable][TX_COUNT],
                             fault |-> fault, ret |-> r.ret]
          /\ Spend(fault)
    /\ UNCHANGED <<ops, overlap, aside>>

\* The overlay is dropped without commit.
Drop(o) ==
    /\ txs[o].phase = "open"
    /\ txs' = [txs EXCEPT ![o] = Closed]
    /\ UNCHANGED <<base, last, ops, faults, overlap, aside>>

Next ==
    \E o \in OverlayIds :
        \/ Open(o)
        \/ RecordTxIdOwner(o)
        \/ UpdateTxStatus(o)
        \/ IncreaseTxCount(o)
        \/ GetTxCount(o)
        \/ Commit(o)
        \/ Drop(o)

Spec == Init /\ [][Next]_vars

----------------------------------------------------------------------------
(* The column catalog as a machine: a build is chosen, and two variants    *)
(* are stepped through it with enum_iterator::Sequence::next.              *)

InitCatalog ==
    /\ IndexerAtStart
    /\ \E fault_proving \in BOOLEAN :
          cat = [fault_proving |-> fault_proving, c |-> 1, d |-> 1]
    /\ LayoutAtStart
    /\ IndexAtStart

NextVariantC ==
    /\ next(cat.c, cat.fault_proving) # <<>>
    /\ cat' = [cat EXCEPT !.c = next(cat.c, cat.fault_proving)[1]]
    /\ UNCHANGED <<base, txs, last, ops, faults, overlap, lay, ix>>

NextVariantD ==
    /\ next(cat.d, cat.fault_proving) # <<>>
    /\ cat' = [cat EXCEPT !.d = next(cat.d, cat.fault_proving)[1]]
    /\ UNCHANGED <<base, txs, last, ops, faults, overlap, lay, ix>>

NextCatalog == NextVariantC \/ NextVariantD

SpecCatalog == InitCatalog /\ [][NextCatalog]_vars

----------------------------------------------------------------------------
(* The persisted layout as a machine: writes and removals at key bytes of  *)
(* the three tables of the indexer, buffered, and commits of the buffer.   *)
(* lay.op is the latest call.                                              *)

Put(table, bytes, value) ==
    /\ lay' = [storage |-> lay.storage,
               changes |-> raw_put(lay, table, bytes, value).changes,
               op |-> [kind |-> "put", table |-> table, bytes |-> bytes,
                       value |-> value]]
    /\ UNCHANGED <<base, txs, last, ops, faults, overlap, cat, ix>>

Delete(table, bytes) ==
    /\ lay' = [storage |-> lay.storage,
               changes |-> raw_delete(lay, table, bytes).changes,
               op |-> [kind |-> "delete", table |-> table, bytes |-> bytes,
                       value |-> ""]]
    /\ UNCHANGED <<base, txs, last, ops, faults, overlap, cat, ix>>

CommitLayout ==
    /\ lay' = [storage |-> raw_commit(lay).storage,
               changes |-> raw_commit(lay).changes,
               op |-> [kind |-> "commit", table |-> "", bytes |-> "",
                       value |-> ""]]
    /\ UNCHANGED <<base, txs, last, ops, faults, overlap, cat, ix>>

NextLayout ==
    \/ \E t \in Tables, b \in KeyBytes, v \in RawValues : Put(t, b, v)
    \/ \E t \in Tables, b \in KeyBytes : Delete(t, b)
    \/ CommitLayout

SpecLayout == Init /\ [][NextLayout]_vars

----------------------------------------------------------------------------
(* The owned-transaction index as a machine: one overlay at a time records *)
(* transactions for their owners, in any order, and commits.               *)
(* ix.out_of_order: some call recorded a place before one already staged.  *)

\* The overlay on the index.
IndexTx == [storage |-> IndexStore(ix.storage), changes |-> IndexStore(ix.changes)]

RecordOwned(owner, block_height, tx_idx) ==
    LET r == record_tx_id_owner(IndexTx, owner, block_height, tx_idx,
                                TxAt(block_height, tx_idx), "none")
    IN  /\ r.ret.ok
        /\ ix' = [storage |-> ix.storage,
                  changes |-> r.self.changes[OwnedTransactions],
                  out_of_order |->
                      (ix.out_of_order
                        \/ \E k \in IndexKeys :
                              /\ ix.changes[k] # <<>> /\ k[1] = owner
                              /\ Before(block_height, tx_idx, k[2], k[3]))]
        /\ UNCHANGED <<base, txs, last, ops, faults, overlap, cat, lay>>

CommitIndex ==
    LET r == commit(IndexTx, "none")
    IN  /\ r.ret.ok
        /\ ix' = [ix EXCEPT !.storage = r.storage[OwnedTransactions],
                            !.changes = NoEntries]
        /\ UNCHANGED <<base, txs, last, ops, faults, overlap, cat, lay>>

NextIndex ==
    \/ \E owner \in Owners, p \in Positions : RecordOwned(owner, p[1], p[2])
    \/ CommitIndex

SpecIndex == Init /\ [][NextIndex]_vars

----------------------------------------------------------------------------
(* Vocabulary of the properties. *)

\* u64 order and difference, limb by limb (a - b for b <= a).
u64_le(a, b) ==
    \/ a = b
    \/ \E i \in 1 .. 4 : a[i] < b[i] /\ \A j \in 1 .. (i - 1) : a[j] = b[j]

u64_sub(a, b) ==
    LET d4 == a[4] - b[4]
        b4 == IF d4 < 0 THEN 1 ELSE 0
        d3 == a[3] - b[3] - b4
        b3 == IF d3 < 0 THEN 1 ELSE 0
        d2 == a[2] - b[2] - b3
        b2 == IF d2 < 0 THEN 1 ELSE 0
        d1 == a[1] - b[1] - b2
    IN  <<d1 % LimbBase, d2 % LimbBase, d3 % LimbBase, d4 % LimbBase>>

\* r = min(t + d, u64::MAX), stated without adding: d fits in the room left
\* above t and r lies exactly d above t, or d does not fit and r is u64::MAX.
IsMinSumMax(t, d, r) ==
    IF u64_le(d, u64_sub(U64_MAX, t))
    THEN u64_le(t, r) /\ u64_sub(r, t) = d
    ELSE r = U64_MAX

\* What overlay o sees at a key: its own pending write, else the committed value.
Visible(o, t, k) ==
    IF txs[o].changes[t][k] # <<>> THEN txs[o].changes[t][k] ELSE base[t][k]

\* The total overlay o sees: 0 when the counter key is absent.
VisibleTotal(o) ==
    IF Visible(o, StatisticTable, TX_COUNT) = <<>> THEN U64(0)
    ELSE Visible(o, StatisticTable, TX_COUNT)[1]

\* The committed total: 0 when the counter key is absent.
CommittedTotal(store) ==
    IF store[StatisticTable][TX_COUNT] = <<>> THEN U64(0)
    ELSE store[StatisticTable][TX_COUNT][1]

\* This step is the call of indexer operation op on overlay o.
Called(o, op) == ops' = ops + 1 /\ last'.op = op /\ last'.ov = o

\* This step is commit(self) on overlay o.
Committed(o) ==
    txs[o].phase = "open" /\ txs'[o].phase = "closed"
        /\ last'.op = "commit" /\ last'.ov = o /\ ops' = ops

StagingOps == {"record_tx_id_owner", "update_tx_status", "increase_tx_count"}

----------------------------------------------------------------------------
(* Properties. *)

\* C1: when commit returns Ok, a fresh overlay opened afterwards on the base
\* store reads every value the committed overlay had staged, in every table: the
\* owner-index entries, the statuses and the new counter total.
C1_CommitOkAllVisible ==
    [][\A o \in OverlayIds :
          (Committed(o) /\ last'.ret.ok) =>
              LET fresh == [storage |-> base', changes |-> EmptyStore]
              IN  /\ \A t \in Tables : \A k \in KeysOf(t) :
                        txs[o].changes[t][k] # <<>> =>
                            get(fresh, t, k, "none") = Ok(txs[o].changes[t][k])
                  /\ txs[o].changes[StatisticTable][TX_COUNT] # <<>> =>
                        get_tx_count(fresh, "none")
                            = Ok(txs[o].changes[StatisticTable][TX_COUNT])]_vars

\* A commit that staged writes in two or more tables returned Ok.
C1_Witness ==
    last.op = "commit" /\ last.ret.ok /\ Cardinality(last.key) >= 2

\* C2: when commit returns an error (store failure or contention), the base store
\* is exactly as before in every table and key, and the store's error is what the
\* caller gets: commit is not retried.
C2_CommitErrAppliesNothing ==
    [][\A o \in OverlayIds :
          (Committed(o) /\ last'.fault # "none") =>
              /\ base' = base
              /\ last'.ret = Err(last'.fault)]_vars

\* A commit of an overlay holding pending writes failed.
C2_Witness ==
    last.op = "commit" /\ ~last.ret.ok /\ last.key # {}

\* C3: read-your-writes.  Right after an overlay staged v at a key, a read of
\* that key through the overlay returns v (get_tx_count returns the n that
\* increase_tx_count returned), and no step of another overlay, a commit to the
\* base store included, changes what the overlay reads at a key it has staged.
C3_ReadYourWrites ==
    [][\A o \in OverlayIds :
          /\ (Called(o, "record_tx_id_owner") /\ last'.ret.ok) =>
                get([storage |-> base', changes |-> txs'[o].changes],
                    OwnedTransactions, last'.key, "none") = Ok(last'.val)
          /\ (Called(o, "update_tx_status") /\ last'.ret.ok) =>
                get([storage |-> base', changes |-> txs'[o].changes],
                    TransactionStatuses, last'.key, "none") = Ok(last'.val)
          /\ (Called(o, "increase_tx_count") /\ last'.ret.ok) =>
                get_tx_count([storage |-> base', changes |-> txs'[o].changes], "none")
                    = Ok(last'.ret.val)
          /\ (txs[o].phase = "open" /\ txs'[o].phase = "open"
                /\ txs[o].changes[StatisticTable][TX_COUNT] # <<>>
                /\ ~(ops' = ops + 1 /\ last'.ov = o)) =>
                get_tx_count([storage |-> base', changes |-> txs'[o].changes], "none")
                    = get_tx_count(Tx(o), "none")
          /\ (txs[o].phase = "open" /\ txs'[o].phase = "open"
                /\ ~(ops' = ops + 1 /\ last'.ov = o)) =>
                \A t \in Tables : \A k \in KeysOf(t) :
                    txs[o].changes[t][k] # <<>> =>
                        get([storage |-> base', changes |-> txs'[o].changes], t, k, "none")
                            = get(Tx(o), t, k, "none")]_vars

\* increase_tx_count returned n in an overlay while the base store holds another
\* total.
C3_Witness ==
    /\ last.op = "increase_tx_count" /\ last.ret.ok
    /\ txs[last.ov].phase = "open"
    /\ base[StatisticTable][TX_COUNT] # <<>>
    /\ base[StatisticTable][TX_COUNT] # last.ret.val

\* C4: update_tx_status(id, s) returns the status the overlay saw for id before
\* the call (its own staged status, else the committed one, else nothing), and
\* afterwards the overlay sees s for id.
C4_UpdateReturnsPrior ==
    [][\A o \in OverlayIds :
          (Called(o, "update_tx_status") /\ last'.fault = "none") =>
              /\ last'.ret = Ok(Visible(o, TransactionStatuses, last'.key))
              /\ txs'[o].changes[TransactionStatuses][last'.key] = last'.val]_vars

\* update_tx_status returned a prior status that differs from the new one.
C4_Witness ==
    /\ last.op = "update_tx_status" /\ last.ret.ok
    /\ last.ret.val # <<>> /\ last.ret.val # last.val

\* C5: increase_tx_count(d) returns min(T + d, u64::MAX) for the total T the
\* overlay sees (0 when absent) and stages exactly that value under TX_COUNT.
C5_IncreaseIsSaturatingSum ==
    [][\A o \in OverlayIds :
          (Called(o, "increase_tx_count") /\ last'.fault = "none") =>
              /\ last'.ret.ok
              /\ Len(last'.ret.val) = 1
              /\ IsMinSumMax(VisibleTotal(o), last'.val[1], last'.ret.val[1])
              /\ txs'[o].changes[StatisticTable][TX_COUNT] = last'.ret.val]_vars

\* The committed total is 1 and the single operation of another overlay,
\* increase_tx_count(u64::MAX), returned u64::MAX: the sum 2^64 was clamped.
C5_Witness ==
    /\ last.op = "increase_tx_count" /\ last.ret = Ok(<<U64_MAX>>)
    /\ last.val = <<U64_MAX>>
    /\ txs[last.ov].phase = "open"
    /\ base[StatisticTable][TX_COUNT] = <<U64(1)>>
    /\ ops = 2

\* C6 as stated: the committed total_tx_count never lowers, whatever overlays
\* are open on the base store.
C6_AsStated ==
    [][u64_le(CommittedTotal(base), CommittedTotal(base'))]_vars

\* C6 amended: while overlays are used one at a time (none is opened while
\* another is open), the committed total_tx_count never lowers.
C6_MonotonicWhenSerial ==
    [][~overlap' => u64_le(CommittedTotal(base), CommittedTotal(base'))]_vars

\* The second of two overlays used one after the other committed a counter.
C6_Witness ==
    /\ ~overlap
    /\ last.op = "commit" /\ last.ret.ok /\ last.ov = 2
    /\ StatisticTable \in last.key

\* C7: overflow saturates and is no error.  increase_tx_count never returns less
\* than the total the overlay saw, returns u64::MAX for the maximum increment,
\* and once the total is u64::MAX every increment returns Ok(u64::MAX) and
\* leaves u64::MAX staged.
C7_SaturatesWithoutError ==
    [][\A o \in OverlayIds :
          (Called(o, "increase_tx_count") /\ last'.fault = "none") =>
              /\ last'.ret.ok /\ last'.ret.err = "none"
              /\ u64_le(VisibleTotal(o), last'.ret.val[1])
              /\ last'.val = <<U64_MAX>> => last'.ret.val = <<U64_MAX>>
              /\ VisibleTotal(o) = U64_MAX =>
                    /\ last'.ret.val = <<U64_MAX>>
                    /\ txs'[o].changes[StatisticTable][TX_COUNT] = <<U64_MAX>>]_vars

\* The committed total is u64::MAX and the single operation of another overlay,
\* increase_tx_count(1), returned Ok(u64::MAX).
C7_Witness ==
    /\ last.op = "increase_tx_count" /\ last.ret = Ok(<<U64_MAX>>)
    /\ last.val = <<U64(1)>>
    /\ txs[last.ov].phase = "open"
    /\ base[StatisticTable][TX_COUNT] = <<U64_MAX>>
    /\ ops = 2

\* C8: get_tx_count returns 0 when TX_COUNT is absent from the overlay and the
\* base store, else the value the overlay sees, and changes neither the
\* overlay's pending writes nor the base store.
C8_GetTxCountPureRead ==
    [][\A o \in OverlayIds :
          (Called(o, "get_tx_count") /\ last'.fault = "none") =>
              /\ last'.ret = Ok(<<VisibleTotal(o)>>)
              /\ txs' = txs
              /\ base' = base]_vars

\* get_tx_count returned 0 and the counter is still absent everywhere.
C8_Witness ==
    /\ last.op = "get_tx_count" /\ last.ret = Ok(<<U64(0)>>)
    /\ txs[last.ov].phase = "open"
    /\ txs[last.ov].changes[StatisticTable][TX_COUNT] = <<>>
    /\ base[StatisticTable][TX_COUNT] = <<>>

\* C9: the base store changes only in a step that is a commit returning Ok: no
\* indexer operation and no drop of an overlay changes any table of it.
C9_OnlyCommitChangesBase ==
    [][base' # base =>
          \E o \in OverlayIds : Committed(o) /\ last'.ret.ok]_vars

\* The first overlay staged a write and was dropped; the base store is as it was
\* when the overlay was opened.
C9_Witness ==
    /\ txs[1].phase = "closed"
    /\ last.op \in StagingOps /\ last.ov = 1 /\ last.ret.ok
    /\ base = EmptyStore

\* C10: record_tx_id_owner returns Ok whenever the store reports no failure,
\* also when the key already holds a transaction id, and the overlay then sees
\* the tx_id of this call at the key; it returns an error only when the store
\* reports one, and that error is the store's.
C10_RecordOverwrites ==
    [][\A o \in OverlayIds :
          Called(o, "record_tx_id_owner") =>
              /\ last'.fault = "none" =>
                    /\ last'.ret = Ok(<<>>)
                    /\ txs'[o].changes[OwnedTransactions][last'.key] = last'.val
              /\ last'.fault # "none" => last'.ret = Err(last'.fault)]_vars

\* record_tx_id_owner returned Ok at a key where the base store holds another
\* transaction id.
C10_Witness ==
    /\ last.op = "record_tx_id_owner" /\ last.ret.ok
    /\ base[OwnedTransactions][last.key] # <<>>
    /\ base[OwnedTransactions][last.key] # last.val

\* C12: increase_tx_count is not isolated between overlays.  A commit that the
\* store does not fail returns Ok whatever other overlays committed meanwhile,
\* and the committed total is then the total this overlay staged: with two
\* overlays that both read T, the later commit decides, the earlier increment
\* is lost, and nothing detects or retries it.
C12_LastCommitWins ==
    [][\A o \in OverlayIds :
          Committed(o) =>
              /\ last'.ret.ok <=> last'.fault = "none"
              /\ (last'.ret.ok /\ txs[o].changes[StatisticTable][TX_COUNT] # <<>>) =>
                    base'[StatisticTable][TX_COUNT]
                        = txs[o].changes[StatisticTable][TX_COUNT]]_vars

\* Two overlays were open together and each used one operation to add 1 to
\* the absent counter; one committed 1, then the other committed 1 over it: the
\* committed total is 1, not 2.
C12_Witness ==
    /\ overlap /\ ops = 2
    /\ last.op = "commit" /\ last.ret.ok
    /\ StatisticTable \in last.key
    /\ last.val = <<U64(1)>>
    /\ base[StatisticTable][TX_COUNT] = <<U64(1)>>

\* C13: a read through an overlay returns the overlay's own pending write for
\* the key when it has one and the committed value of the base store
\* otherwise; what another overlay has staged and not committed is never
\* returned.  Checked for get_tx_count and for the prior status returned by
\* update_tx_status.
C13_ReadsOwnOrCommitted ==
    [][\A o \in OverlayIds :
          /\ (Called(o, "get_tx_count") /\ last'.fault = "none") =>
                LET own == txs[o].changes[StatisticTable][TX_COUNT]
                IN  /\ own # <<>> => last'.ret = Ok(own)
                    /\ own = <<>> => last'.ret = Ok(<<CommittedTotal(base)>>)
          /\ (Called(o, "update_tx_status") /\ last'.fault = "none") =>
                LET own == txs[o].changes[TransactionStatuses][last'.key]
                IN  /\ own # <<>> => last'.ret = Ok(own)
                    /\ own = <<>> =>
                          last'.ret = Ok(base[TransactionStatuses][last'.key])]_vars

\* get_tx_count returned the committed total, 0, through one overlay while
\* another open overlay held a staged total.
C13_Witness ==
    /\ last.op = "get_tx_count" /\ last.ret = Ok(<<U64(0)>>)
    /\ base[StatisticTable][TX_COUNT] = <<>>
    /\ \E p \in OverlayIds :
          /\ p # last.ov /\ txs[p].phase = "open"
          /\ txs[p].changes[StatisticTable][TX_COUNT] # <<>>

\* C14: commit terminates the overlay.  The step in which commit is called on
\* an overlay leaves it consumed whether commit returned Ok or an error; a
\* consumed overlay stays consumed, and no operation and no second commit is
\* ever performed on it.
C14_CommitTerminatesOverlay ==
    [][\A o \in OverlayIds :
          /\ (last'.op = "commit" /\ last'.ov = o
                /\ ~(last.op = "commit" /\ last.ov = o)) =>
                (txs[o].phase = "open" /\ txs'[o].phase = "closed")
          /\ txs[o].phase = "closed" =>
                /\ txs'[o] = txs[o]
                /\ last'.ov = o =>
                      (ops' = ops /\ faults' = faults /\ base' = base
                        /\ last'.op = last.op /\ last'.ret = last.ret)]_vars

\* A commit failed and consumed its overlay while operations could still be
\* called on open overlays.
C14_Witness ==
    /\ last.op = "commit" /\ ~last.ret.ok
    /\ txs[last.ov].phase = "closed"
    /\ StatisticTable \in last.key
    /\ ops < MaxOps

\* C15: an operation during which the store fails returns that failure, as the
\* store reported it, and stages nothing: the write sets and the base store
\* are as before the call.  No failure is suppressed: increase_tx_count
\* returns the error when its read of the counter fails and when its insert
\* fails, get_tx_count when its read fails, record_tx_id_owner when its
\* insert fails, update_tx_status when its replace fails.
C15_FailurePropagates ==
    [][(ops' = ops + 1 /\ last'.op \in StagingOps \cup {"get_tx_count"}) =>
          LET o == last'.ov
              op == last'.op
          IN  /\ ~last'.ret.ok =>
                    /\ last'.fault # "none"
                    /\ last'.ret = Err(last'.fault)
                    /\ txs' = txs
                    /\ base' = base
              /\ (op = "increase_tx_count" /\ last'.fault # "none") =>
                    /\ ~last'.ret.ok
                    /\ txs'[o].changes[StatisticTable][TX_COUNT]
                          = txs[o].changes[StatisticTable][TX_COUNT]
              /\ (op = "get_tx_count" /\ last'.fault = "read") => ~last'.ret.ok
              /\ (op = "record_tx_id_owner" /\ last'.fault = "write") =>
                    ~last'.ret.ok
              /\ (op = "update_tx_status" /\ last'.fault # "none") =>
                    ~last'.ret.ok]_vars

\* The read inside increase_tx_count failed in an overlay that already held a
\* staged total, which it still holds.
C15_Witness ==
    /\ last.op = "increase_tx_count" /\ last.fault = "read"
    /\ last.ret = Err("read")
    /\ txs[last.ov].phase = "open"
    /\ txs[last.ov].changes[StatisticTable][TX_COUNT] = <<U64(1)>>

\* C19: an indexer operation changes what its overlay sees at one key of one
\* table and nothing else: record_tx_id_owner the owned-transaction entry at
\* (owner, height, idx), update_tx_status the status of the given id,
\* increase_tx_count the statistic entry total_tx_count.  Every other key of
\* every table reads as before through that overlay, and the other overlays
\* and the base store are untouched.
C19_OneKeyOneTable ==
    [][(ops' = ops + 1 /\ last'.op \in StagingOps) =>
              LET o == last'.ov
                  op == last'.op
                  table == IF op = "record_tx_id_owner" THEN OwnedTransactions
                           ELSE IF op = "update_tx_status" THEN TransactionStatuses
                           ELSE StatisticTable
                  after(t, k) == IF txs'[o].changes[t][k] # <<>>
                                 THEN txs'[o].changes[t][k] ELSE base'[t][k]
              IN  /\ \A t \in Tables : \A k \in KeysOf(t) :
                        (t # table \/ k # last'.key) =>
                            after(t, k) = Visible(o, t, k)
                  /\ last'.ret.ok =>
                        after(table, last'.key)
                            = (IF op = "increase_tx_count" THEN last'.ret.val
                               ELSE last'.val)
                  /\ Called(o, op)
                  /\ \A p \in OverlayIds \ {o} : txs'[p] = txs[p]
                  /\ base' = base]_vars

\* record_tx_id_owner staged an entry in an overlay that holds another staged
\* entry of the same table, which is still there.
C19_Witness ==
    /\ last.op = "record_tx_id_owner" /\ last.ret.ok
    /\ txs[last.ov].phase = "open"
    /\ txs[last.ov].changes[OwnedTransactions][last.key] = last.val
    /\ \E k \in OwnedKeys :
          k # last.key /\ txs[last.ov].changes[OwnedTransactions][k] # <<>>

\* C20: increments accumulate inside one overlay.  An increase_tx_count(d)
\* that follows the overlay's own increments returns min(S + d, MAX), where S
\* is the total the overlay returned and staged last, whatever the base store
\* holds by then: step k of a sequence from visible total T therefore returns
\* min(T + d1 + ... + dk, MAX).  A successful commit right after the sequence
\* leaves that last total in the base store.
C20_IncrementsAccumulate ==
    [][\A o \in OverlayIds :
          /\ (Called(o, "increase_tx_count") /\ last'.fault = "none"
                /\ txs[o].changes[StatisticTable][TX_COUNT] # <<>>) =>
                /\ last'.ret.ok
                /\ IsMinSumMax(txs[o].changes[StatisticTable][TX_COUNT][1],
                               last'.val[1], last'.ret.val[1])
          /\ (Called(o, "increase_tx_count") /\ last'.fault = "none"
                /\ last.op = "increase_tx_count" /\ last.ov = o /\ last.ret.ok) =>
                IsMinSumMax(last.ret.val[1], last'.val[1], last'.ret.val[1])
          /\ (Committed(o) /\ last'.ret.ok
                /\ last.op = "increase_tx_count" /\ last.ov = o /\ last.ret.ok) =>
                base'[StatisticTable][TX_COUNT] = last.ret.val]_vars

\* One overlay added 1 twice to the absent counter and committed: the base
\* store holds 2.
C20_Witness ==
    /\ last.op = "commit" /\ last.ret.ok
    /\ last.val = <<>>
    /\ ops = 2
    /\ base[StatisticTable][TX_COUNT] = <<U64(2)>>

\* C16: in each build the mapping from variant to identifier is injective,
\* each identifier has one name and no two variants share a name, and
\* Column::COUNT is the number of variants of the build: 27 without the
\* fault-proving feature, 51 with it; the identifiers of a build are as many.
C16_ColumnStable ==
    /\ cat.c \in Variants(cat.fault_proving)
    /\ cat.d \in Variants(cat.fault_proving)
    /\ cat.c # cat.d =>
          /\ StorageColumn_id(cat.c) # StorageColumn_id(cat.d)
          /\ name(cat.c) # name(cat.d)
    /\ StorageColumn_id(cat.c) = StorageColumn_id(cat.d) =>
          name(cat.c) = name(cat.d)
    /\ StorageColumn_id(cat.c) = as_u32(cat.c)
    /\ COUNT(cat.fault_proving) = (IF cat.fault_proving THEN 51 ELSE 27)
    /\ COUNT(cat.fault_proving)
          = Cardinality({StorageColumn_id(v) : v \in Variants(cat.fault_proving)})

\* The build without the feature, at its last variant CoinsToSpend = 26 and
\* at TransactionStatus = 3.
C16_Witness ==
    /\ ~cat.fault_proving
    /\ next(cat.c, cat.fault_proving) = <<>>
    /\ name(cat.c) = "CoinsToSpend" /\ StorageColumn_id(cat.c) = 26
    /\ name(cat.d) = "TransactionStatus" /\ StorageColumn_id(cat.d) = 3

\* C17: the identifiers under the fault-proving feature never collide with
\* the unconditional ones, and the feature renumbers nothing: a variant
\* without the cfg attribute is in both builds with the identifier and name
\* it is declared with, those identifiers are 0..26, the conditional ones
\* are 27..50.
C17_ConditionalIdsApart ==
    /\ (Column[cat.c].fault_proving /\ ~Column[cat.d].fault_proving) =>
          /\ StorageColumn_id(cat.c) # StorageColumn_id(cat.d)
          /\ name(cat.c) # name(cat.d)
    /\ Column[cat.c].fault_proving =>
          /\ StorageColumn_id(cat.c) \in 27 .. 50
          /\ cat.c \notin Variants(FALSE)
    /\ ~Column[cat.c].fault_proving =>
          /\ StorageColumn_id(cat.c) \in 0 .. 26
          /\ cat.c \in Variants(FALSE) /\ cat.c \in Variants(TRUE)
          /\ StorageColumn_id(cat.c) = Column[cat.c].discriminant
          /\ name(cat.c) = Column[cat.c].name

\* The build with the feature, at the first conditional variant, 27, and at
\* the last unconditional one, 26.
C17_Witness ==
    /\ cat.fault_proving
    /\ Column[cat.c].fault_proving /\ StorageColumn_id(cat.c) = 27
    /\ ~Column[cat.d].fault_proving /\ StorageColumn_id(cat.d) = 26

\* C11: tables are namespaced by column.  The three tables of the indexer
\* are kept under three distinct column identifiers, so a write or a removal
\* at key bytes b of one table leaves what the other tables read at the same
\* bytes b as it was, through the write buffer, and a commit leaves in the
\* store, for each table, what that table read at b before it.
C11_TablesNamespaced ==
    [][lay' # lay =>
          /\ \A t1, t2 \in Tables :
                t1 # t2 => StorageColumn_id(column(t1)) # StorageColumn_id(column(t2))
          /\ lay'.op.kind \in {"put", "delete"} =>
                /\ \A t \in Tables \ {lay'.op.table} : \A b \in KeyBytes :
                      raw_get(lay', t, b) = raw_get(lay, t, b)
                /\ raw_get(lay', lay'.op.table, lay'.op.bytes)
                      = (IF lay'.op.kind = "put" THEN <<lay'.op.value>> ELSE <<>>)
                /\ lay'.storage = lay.storage
          /\ lay'.op.kind = "commit" =>
                \A t \in Tables : \A b \in KeyBytes :
                    /\ lay'.storage[Place(t, b)] = raw_get(lay, t, b)
                    /\ raw_get(lay', t, b) = raw_get(lay, t, b)]_vars

\* x was written at bytes b of the owned-transaction index while the status
\* table held a buffered y and the statistic table a committed y at the
\* same bytes; both still read y.
C11_Witness ==
    /\ lay.op.kind = "put" /\ lay.op.table = OwnedTransactions
    /\ lay.op.value = "x"
    /\ raw_get(lay, OwnedTransactions, lay.op.bytes) = <<"x">>
    /\ lay.changes[Place(TransactionStatuses, lay.op.bytes)] = <<WriteInsert("y")>>
    /\ lay.storage[Place(StatisticTable, lay.op.bytes)] = <<"y">>
    /\ raw_get(lay, StatisticTable, lay.op.bytes) = <<"y">>

\* C18: for each owner, whatever the order of the record_tx_id_owner calls
\* before the commits, iterating the committed owned-transaction index
\* yields that owner's entries, and the transactions come in non-decreasing
\* (block height, index in block) order of execution, each under the key of
\* its own place.
C18_OwnedIndexOrdered ==
    \A owner \in Owners :
        LET s == owned_transactions_ids(ix.storage, owner)
        IN  /\ \A j \in DOMAIN s :
                  /\ s[j].key[1] = owner
                  /\ s[j].tx_id = TxAt(s[j].key[2], s[j].key[3])
            /\ \A j, l \in DOMAIN s :
                  j < l => ~Before(s[l].tx_id[2], s[l].tx_id[3],
                                   s[j].tx_id[2], s[j].tx_id[3])

\* Calls were made out of execution order and the committed index of owner A
\* holds the transactions at (1, 1), (1, 2) and (2, 1), owner B's another.
C18_Witness ==
    /\ ix.out_of_order
    /\ ix.changes = NoEntries
    /\ \A p \in Positions :
          ix.storage[OwnedTransactionIndexKey("A", p[1], p[2])] # <<>>
    /\ ix.storage[OwnedTransactionIndexKey("B", 2, 1)] # <<>>
    /\ Len(owned_transactions_ids(ix.storage, "A")) = 3
    /\ owned_transactions_ids(ix.storage, "A")[2].tx_id = TxAt(1, 2)

====
